---- MODULE Spec2Model ----
(***************************************************************************)
(* The streaming-connection registry of the FODI MCP server               *)
(* (mcp-server/src/services/sse.ts, class SseService) together with the   *)
(* HTTP handlers that drive it (the server's entry point: GET /sse, its   *)
(* abort listener, POST /simulate-change).                                *)
(*                                                                         *)
(* JavaScript runs every handler to completion, so each handler is one    *)
(* action.  A handler is computed by operators over a record              *)
(*   [clients, chans, threw]                                               *)
(* holding the Map of clients, the output channels and whether an         *)
(* exception is propagating out of the code run so far.                   *)
(***************************************************************************)
EXTENDS Integers, Sequences, FiniteSets, TLC

\* ---------------------------------------------------------------- bounds
MaxChannels == 2      \* streams ever opened (addClient calls)
MaxCalls == 1         \* tool calls in flight at once

\* ------------------------------------------------------ program constants
TIMEOUT == 30000      \* const timeout = 30000
PING_PERIOD == 15000  \* setInterval(..., 15000)

\* handler runs that issue an event: every stream connects, and one more
MaxEvents == MaxChannels + 1
\* steps of the wall clock, PING_PERIOD each: one step past the timeout window
MaxAdvances == (TIMEOUT \div PING_PERIOD) + 1

VARIABLES
    clients,       \* SseService.clients: Map<string, SseClient>, in insertion order
    pingInterval,  \* SseService.pingInterval: "timer" or "null"
    chans,         \* the output channels handed to addClient, by number
    now,           \* Date.now(), in ms
    nextTick,      \* when the interval timer is due next
    seq,           \* number of handler runs that issued an event so far
    advances,      \* number of clock steps taken
    subs,          \* armed abort listeners of GET /sse: <<clientId, channel>>
    sseIds,        \* the client ids GET /sse generated, in order
    last,          \* the handler that ran last, with the state it started from
    accessToken,   \* OneDriveService.accessToken: "null" or the token
    calls,         \* the tool calls awaiting their upstream answer
    reply          \* the answer to the tools request that completed last

sseVars == <<clients, pingInterval, chans, now, nextTick, seq, advances,
             subs, sseIds>>

toolVars == <<accessToken, calls, reply>>

vars == <<sseVars, last, toolVars>>

\* config.enableSse: process.env.ENABLE_SSE === 'true'; the server is modelled
\* with the streaming endpoint switched on
enableSse == TRUE

\* ------------------------------------------------------------ identifiers
\* `client_${Date.now()}_${Math.random().toString(36).substr(2, 9)}`:
\* the string is determined by, and determines, the pair (ms, suffix).
ClientId(ms, suffix) == <<ms, suffix>>

\* outcomes of Math.random().toString(36).substr(2, 9) the model draws from
RandomSuffixes == {"k3", "x7"}

\* ids a direct caller of the registry passes
ApiId(i) == ClientId(i, "k3")

NoId == <<>>

\* ------------------------------------------------------------------- Map
\* An ECMAScript Map: a list of entries in insertion order.  delete empties
\* the entry in place (a running iterator keeps its index), set on an
\* existing key keeps the entry's position, set on a new key appends.
MapIndex(m, k) ==
    LET hits == {i \in 1..Len(m) : m[i].live /\ m[i].key = k}
    IN IF hits = {} THEN 0 ELSE CHOOSE i \in hits : TRUE

MapHas(m, k) == MapIndex(m, k) # 0

MapGet(m, k) == m[MapIndex(m, k)].value

MapSet(m, k, v) ==
    IF MapHas(m, k)
    THEN [m EXCEPT ![MapIndex(m, k)].value = v]
    ELSE Append(m, [key |-> k, value |-> v, live |-> TRUE])

MapDelete(m, k) ==
    IF MapHas(m, k)
    THEN [m EXCEPT ![MapIndex(m, k)].live = FALSE]
    ELSE m

MapSize(m) == Cardinality({i \in 1..Len(m) : m[i].live})

MapKeys(m) == {m[i].key : i \in {j \in 1..Len(m) : m[j].live}}

IsLive(e) == e.live

\* no iterator outlives a handler: emptied entries are dropped between handlers
Compact(m) == SelectSeq(m, IsLive)

\* -------------------------------------------------------------- channels
\* kind "controller": a ReadableStreamDefaultController; enqueue and close
\*   throw a TypeError unless the stream is readable.  state is "readable",
\*   "closed" (by close()) or "cancelled" (by the consumer).
\* kind "writer": the WritableStreamDefaultWriter that GET /sse passes; it has
\*   no enqueue method (calling it throws a TypeError) and its close()
\*   returns a promise, so it never throws synchronously.
ChannelKinds == {"controller", "writer"}

\* owner: the id the channel was passed to addClient with
NewChannel(kind, owner) ==
    [kind |-> kind, owner |-> owner, state |-> "readable", written |-> <<>>,
     closeCalls |-> 0, stalledAt |-> -1]

CanEnqueue(c) == c.kind = "controller" /\ c.state = "readable"

CloseThrows(c) == c.kind = "controller" /\ c.state # "readable"

\* `data: ${JSON.stringify(data)}\n\n`
SseFrame(data) == <<"data: ", data, "\n\n">>

\* controller.enqueue(chunk): [ok, chans]
enqueue(cs, ch, chunk) ==
    IF CanEnqueue(cs[ch])
    THEN [ok |-> TRUE, chans |-> [cs EXCEPT ![ch].written = Append(@, chunk)]]
    ELSE [ok |-> FALSE, chans |-> cs]

\* controller.close(): [ok, chans]
close(cs, ch) ==
    [ok |-> ~CloseThrows(cs[ch]),
     chans |-> [cs EXCEPT ![ch].closeCalls = @ + 1,
                          ![ch].state = IF CloseThrows(cs[ch]) THEN @ ELSE "closed"]]

\* ---------------------------------------------------------------- events
\* new Date().toISOString(): a string no operation of the registry reads; the
\* payloads carry the field, the model does not track its value
IsoString == "iso-8601"

ConnectedEvent(clientId) ==
    [type |-> "connected", timestamp |-> IsoString, clientId |-> clientId]

PingEvent == [type |-> "ping", timestamp |-> IsoString]

\* { ...a, ...b }: the later spread wins
Spread(a, b) ==
    [k \in DOMAIN a \cup DOMAIN b |-> IF k \in DOMAIN b THEN b[k] ELSE a[k]]

FileKinds == {"created", "updated", "deleted"}

\* ------------------------------------------------------------ SseService
\* removeClient without the try/catch around close()
removeClient_NoCatch(s, clientId) ==
    IF s.threw \/ ~MapHas(s.clients, clientId) THEN s
    ELSE LET client == MapGet(s.clients, clientId)
             r == close(s.chans, client.controller)
         IN IF r.ok
            THEN [s EXCEPT !.chans = r.chans,
                           !.clients = MapDelete(s.clients, clientId)]
            ELSE [s EXCEPT !.chans = r.chans, !.threw = TRUE]

\* removeClient without the `if (client)` guard
removeClient_NoGuard(s, clientId) ==
    IF s.threw THEN s
    ELSE IF ~MapHas(s.clients, clientId) THEN [s EXCEPT !.threw = TRUE]
    ELSE LET client == MapGet(s.clients, clientId)
             r == close(s.chans, client.controller)
         IN [s EXCEPT !.chans = r.chans,
                      !.clients = MapDelete(s.clients, clientId)]

\* removeClient that closes the channel and forgets clients.delete()
removeClient_NoDelete(s, clientId) ==
    IF s.threw \/ ~MapHas(s.clients, clientId) THEN s
    ELSE LET client == MapGet(s.clients, clientId)
             r == close(s.chans, client.controller)
         IN [s EXCEPT !.chans = r.chans]

removeClient(s, clientId) ==
    IF s.threw \/ ~MapHas(s.clients, clientId) THEN s
    ELSE LET client == MapGet(s.clients, clientId)
             r == close(s.chans, client.controller)
         IN  \* try { close() } catch { }: the outcome r.ok is not looked at
             [s EXCEPT !.chans = r.chans,
                       !.clients = MapDelete(s.clients, clientId)]

\* sendToClient without the try/catch around enqueue()
sendToClient_NoCatch(s, clientId, data) ==
    IF s.threw \/ ~MapHas(s.clients, clientId) THEN s
    ELSE LET client == MapGet(s.clients, clientId)
             r == enqueue(s.chans, client.controller,
                          [n |-> seq + 1, frame |-> SseFrame(data)])
         IN IF r.ok
            THEN [s EXCEPT !.chans = r.chans,
                           !.clients = MapSet(s.clients, clientId,
                                              [client EXCEPT !.lastPing = now])]
            ELSE [s EXCEPT !.threw = TRUE]

\* sendToClient without `client.lastPing = Date.now()`
sendToClient_NoRefresh(s, clientId, data) ==
    IF s.threw \/ ~MapHas(s.clients, clientId) THEN s
    ELSE LET client == MapGet(s.clients, clientId)
             r == enqueue(s.chans, client.controller,
                          [n |-> seq + 1, frame |-> SseFrame(data)])
         IN IF r.ok
            THEN [s EXCEPT !.chans = r.chans]
            ELSE removeClient([s EXCEPT !.chans = r.chans], clientId)

sendToClient(s, clientId, data) ==
    IF s.threw \/ ~MapHas(s.clients, clientId) THEN s
    ELSE LET client == MapGet(s.clients, clientId)
             r == enqueue(s.chans, client.controller,
                          [n |-> seq + 1, frame |-> SseFrame(data)])
         IN IF r.ok
            THEN [s EXCEPT !.chans = r.chans,
                           !.clients = MapSet(s.clients, clientId,
                                              [client EXCEPT !.lastPing = now])]
            ELSE removeClient([s EXCEPT !.chans = r.chans], clientId)

\* addClient that registers the client and sends it nothing
addClient_NoGreeting(s, clientId, controller) ==
    IF s.threw THEN s
    ELSE LET client == [id |-> clientId, controller |-> controller, lastPing |-> now]
         IN [s EXCEPT !.clients = MapSet(s.clients, clientId, client)]

addClient(s, clientId, controller) ==
    IF s.threw THEN s
    ELSE LET client == [id |-> clientId, controller |-> controller, lastPing |-> now]
         IN sendToClient([s EXCEPT !.clients = MapSet(s.clients, clientId, client)],
                         clientId, ConnectedEvent(clientId))

\* for (const clientId of this.clients.keys()): the iterator is live, i is
\* its index into the entry list
RECURSIVE broadcastFrom(_, _, _)
\* a broadcast over a snapshot array that is spliced on removal: the entry
\* after a removed one is stepped over
broadcastFrom_Splice(s, i, data) ==
    IF s.threw \/ i > Len(s.clients) THEN s
    ELSE LET s1 == sendToClient(s, s.clients[i].key, data)
         IN IF MapSize(s1.clients) < MapSize(s.clients)
            THEN broadcastFrom([s1 EXCEPT !.clients = Compact(@)], i + 1, data)
            ELSE broadcastFrom(s1, i + 1, data)

broadcastFrom(s, i, data) ==
    IF s.threw \/ i > Len(s.clients) THEN s
    ELSE IF ~s.clients[i].live THEN broadcastFrom(s, i + 1, data)
    ELSE broadcastFrom(sendToClient(s, s.clients[i].key, data), i + 1, data)

broadcast(s, data) == broadcastFrom(s, 1, data)

notifyFileChange(s, event) == broadcast(s, Spread([type |-> "file_change"], event))

getClientCount(s) == MapSize(s.clients)

\* the callback of startPingInterval
RECURSIVE sweepFrom(_, _, _)
\* the age test with >= in place of >
sweepFrom_AtLeast(s, i, tnow) ==
    IF s.threw \/ i > Len(s.clients) THEN s
    ELSE IF ~s.clients[i].live THEN sweepFrom(s, i + 1, tnow)
    ELSE IF tnow - s.clients[i].value.lastPing >= TIMEOUT
         THEN sweepFrom(removeClient(s, s.clients[i].key), i + 1, tnow)
         ELSE sweepFrom(sendToClient(s, s.clients[i].key, PingEvent), i + 1, tnow)

\* a sweep that evicts and never pings
sweepFrom_NoPing(s, i, tnow) ==
    IF s.threw \/ i > Len(s.clients) THEN s
    ELSE IF ~s.clients[i].live THEN sweepFrom(s, i + 1, tnow)
    ELSE IF tnow - s.clients[i].value.lastPing > TIMEOUT
         THEN sweepFrom(removeClient(s, s.clients[i].key), i + 1, tnow)
         ELSE sweepFrom(s, i + 1, tnow)

\* the age test with its operands swapped: lastPing - now > timeout
sweepFrom_WrongSign(s, i, tnow) ==
    IF s.threw \/ i > Len(s.clients) THEN s
    ELSE IF ~s.clients[i].live THEN sweepFrom(s, i + 1, tnow)
    ELSE IF s.clients[i].value.lastPing - tnow > TIMEOUT
         THEN sweepFrom(removeClient(s, s.clients[i].key), i + 1, tnow)
         ELSE sweepFrom(sendToClient(s, s.clients[i].key, PingEvent), i + 1, tnow)

sweepFrom(s, i, tnow) ==
    IF s.threw \/ i > Len(s.clients) THEN s
    ELSE IF ~s.clients[i].live THEN sweepFrom(s, i + 1, tnow)
    ELSE IF tnow - s.clients[i].value.lastPing > TIMEOUT
         THEN sweepFrom(removeClient(s, s.clients[i].key), i + 1, tnow)
         ELSE sweepFrom(sendToClient(s, s.clients[i].key, PingEvent), i + 1, tnow)

sweep(s) == sweepFrom(s, 1, now)

RECURSIVE closeAllFrom(_, _)
closeAllFrom(s, i) ==
    IF s.threw \/ i > Len(s.clients) THEN s
    ELSE IF ~s.clients[i].live THEN closeAllFrom(s, i + 1)
    ELSE closeAllFrom(removeClient(s, s.clients[i].key), i + 1)

\* ------------------------------------------------------------- tool calls
\* Two dispatchers answer tools/list and tools/call: FodiTools.registerTools of
\* the Node server ("server") and handleMcpTools of the Worker ("worker").
Dispatchers == {"server", "worker"}

\* JavaScript values: an object is a function from its keys; a string is a
\* TLA+ string, except a file name or a query, which is its list of characters.
EmptyObj == [k \in {} |-> ""]

Prop(k, v) == [x \in {k} |-> v]

\* request.params.arguments: an object, or absent (undefined)
Arguments(fields) == [object |-> TRUE, fields |-> fields]

NoArguments == [object |-> FALSE, fields |-> EmptyObj]

Has(args, k) == k \in DOMAIN args.fields

\* { key: args.k } under JSON.stringify: an undefined value leaves the key out
OptProp(key, args, k) == IF Has(args, k) THEN Prop(key, args.fields[k]) ELSE EmptyObj

\* args.path || '/'
PathOr(args) ==
    IF Has(args, "path") /\ args.fields["path"] # "" THEN args.fields["path"] ELSE "/"

\* the outcome of a call: an exception with its message (a list of the pieces
\* the message is concatenated from), or a value
Thrown(msg) == [threw |-> TRUE, message |-> msg, value |-> EmptyObj]

Returned(v) == [threw |-> FALSE, message |-> <<>>, value |-> v]

\* the TypeError of reading a property of undefined
TypeErrorMessage(k) == <<"Cannot read properties of undefined (reading '", k, "')">>

\* a text: the literal it starts with, and what follows.  JSON.stringify of an
\* object starts with "{" and is followed by the serialised object.
JSON_stringify(obj) == [lead |-> "{", rest |-> obj]

\* `Error: ${message}`
ErrorText(msg) == [lead |-> "Error: ", rest |-> msg]

\* { content: [{ type: 'text', text }] }
TextResult(text) == [content |-> <<[type |-> "text", text |-> text]>>]

\* --------------------------------------------------------- collaborators
\* the files of the drive the collaborators answer from (of the metadata
\* fields only id and name are filled in; JSON.stringify leaves the rest out)
Drive ==
    << [id |-> "f1", name |-> <<"r","e","p","o","r","t",".","d","o","c","x">>],
       [id |-> "f2", name |-> <<"i","m","a","g","e",".","p","n","g">>],
       [id |-> "f3", name |-> <<"d","o","c","u","m","e","n","t",".","t","x","t">>] >>

\* the files at the positions S, in drive order
Pick(S) ==
    LET n == Cardinality(S)
        at == [j \in 1..n |-> CHOOSE i \in S : Cardinality({k \in S : k < i}) = j - 1]
    IN [j \in 1..n |-> Drive[at[j]]]

\* what the upstream answers a request with:
\*   "network"  fetch rejects
\*   "status"   a response that is not ok
\*   "badjson"  a response whose body does not parse
\*   "nofield"  a JSON object without the field the caller reads
\*   "data"     the JSON answer, with the files it lists
OutcomeKinds == {"network", "status", "badjson", "nofield", "data"}

Outcomes ==
    {[kind |-> k, files |-> <<>>] : k \in OutcomeKinds \ {"data"}}
        \cup {[kind |-> "data", files |-> Pick(S)] : S \in SUBSET (1..Len(Drive))}

StatusText == "Not Found"

\* OneDriveService: the token check, the fetch, the ok check, response.json()
OneDriveCall(token, o, failure) ==
    IF token = "null" THEN Thrown(<<"Access token not set">>)
    ELSE IF o.kind = "network" THEN Thrown(<<"fetch failed">>)
    ELSE IF o.kind = "status" THEN Thrown(<<failure, StatusText>>)
    ELSE IF o.kind = "badjson" THEN Thrown(<<"Unexpected token < in JSON at position 0">>)
    ELSE IF o.kind = "nofield" THEN Returned(EmptyObj)
    ELSE Returned(Prop("value", o.files))

OneDrive_listFiles(token, o) ==
    OneDriveCall(token, o, "Failed to list files: ")

OneDrive_searchFiles(token, o) ==
    OneDriveCall(token, o, "Failed to search files: ")

\* the file asked for is the first the upstream names
OneDrive_getFile(token, o) ==
    LET r == OneDriveCall(token, o, "Failed to get file: ")
    IN IF r.threw THEN r
       ELSE IF o.kind = "nofield" \/ o.files = <<>> THEN Returned(EmptyObj)
       ELSE Returned(o.files[1])

LinkOf(fileId) == <<"https://1drv.ms/", fileId>>

\* result.link.webUrl
OneDrive_getDownloadUrl(token, o, fileId) ==
    LET r == OneDriveCall(token, o, "Failed to get download URL: ")
    IN IF r.threw THEN r
       ELSE IF o.kind = "nofield" THEN Thrown(TypeErrorMessage("webUrl"))
       ELSE Returned(LinkOf(fileId))

\* ../services/fileMethods of the Worker: each method answers with a Response
\* or fails with an Error carrying the upstream's detail
FileMethodsCall(o) ==
    IF o.kind = "network" THEN Thrown(<<"fetch failed">>)
    ELSE IF o.kind = "status" THEN Thrown(<<StatusText>>)
    ELSE Returned(o)

\* response.json() of such a Response
ResponseJson(o) ==
    IF o.kind = "badjson" THEN Thrown(<<"Unexpected token < in JSON at position 0">>)
    ELSE IF o.kind = "nofield" THEN Returned(EmptyObj)
    ELSE Returned(Prop("value", o.files))

\* ------------------------------------------------------------- FodiTools
\* what a running call has at hand: the token OneDriveService holds, the
\* upstream's answer, the registry's client count, Date.now() and Math.random()
Context(token, o, count, ms, suffix) ==
    [accessToken |-> token, o |-> o, count |-> count, ms |-> ms, suffix |-> suffix]

\* the object the handlers map each file to
FileEntry(file) ==
    [k \in (DOMAIN file \cap {"id", "name", "size"}) \cup {"isFolder"} |->
        IF k = "isFolder" THEN "folder" \in DOMAIN file ELSE file[k]]

FileList(files) == [i \in 1..Len(files) |-> FileEntry(files[i])]

listFiles(args, ctx) ==
    IF ~args.object THEN Thrown(TypeErrorMessage("path"))
    ELSE LET path == PathOr(args)
             response == OneDrive_listFiles(ctx.accessToken, ctx.o)
         IN IF response.threw THEN response
            ELSE IF "value" \notin DOMAIN response.value
                 THEN Thrown(TypeErrorMessage("map"))
            ELSE LET fileList == FileList(response.value["value"])
                 IN Returned(TextResult(JSON_stringify(
                        [path |-> path, files |-> fileList, total |-> Len(fileList)])))

searchFiles(args, ctx) ==
    IF ~args.object THEN Thrown(TypeErrorMessage("query"))
    ELSE LET response == OneDrive_searchFiles(ctx.accessToken, ctx.o)
         IN IF response.threw THEN response
            ELSE IF "value" \notin DOMAIN response.value
                 THEN Thrown(TypeErrorMessage("map"))
            ELSE LET searchResults == FileList(response.value["value"])
                 IN Returned(TextResult(JSON_stringify(
                        Spread(OptProp("query", args, "query"),
                               [results |-> searchResults,
                                total |-> Len(searchResults)]))))

getFileInfo(args, ctx) ==
    IF ~args.object THEN Thrown(TypeErrorMessage("file_id"))
    ELSE LET file == OneDrive_getFile(ctx.accessToken, ctx.o)
         IN IF file.threw THEN file
            ELSE Returned(TextResult(JSON_stringify(FileEntry(file.value))))

getDownloadUrl(args, ctx) ==
    IF ~args.object THEN Thrown(TypeErrorMessage("file_id"))
    ELSE LET fileId == IF Has(args, "file_id") THEN args.fields["file_id"]
                       ELSE "undefined"
             downloadUrl == OneDrive_getDownloadUrl(ctx.accessToken, ctx.o, fileId)
         IN IF downloadUrl.threw THEN downloadUrl
            ELSE Returned(TextResult(JSON_stringify(
                    Spread(OptProp("file_id", args, "file_id"),
                           [download_url |-> downloadUrl.value]))))

getAuthUrl(args, ctx) ==
    Returned(TextResult(JSON_stringify(
        [auth_url |-> "authorize?client_id&redirect_uri",
         client_id |-> "ONEDRIVE_CLIENT_ID",
         redirect_uri |-> "ONEDRIVE_REDIRECT_URI"])))

subscribeChanges(args, ctx) ==
    IF ~args.object THEN Thrown(TypeErrorMessage("path"))
    ELSE Returned(TextResult(JSON_stringify(
            [message |-> "Subscribed to file changes",
             path |-> PathOr(args),
             client_id |-> ClientId(ctx.ms, ctx.suffix),
             sse_endpoint |-> "/sse",
             note |-> "SSE endpoint available for real-time updates"])))

\* getSseStatus with the comparison off by one: clientCount >= 0
getSseStatus_AlwaysActive(args, ctx) ==
    Returned(TextResult(JSON_stringify(
        [sse_enabled |-> TRUE,
         connected_clients |-> ctx.count,
         endpoint |-> "/sse",
         status |-> IF ctx.count >= 0 THEN "active" ELSE "idle"])))

getSseStatus(args, ctx) ==
    Returned(TextResult(JSON_stringify(
        [sse_enabled |-> TRUE,
         connected_clients |-> ctx.count,
         endpoint |-> "/sse",
         status |-> IF ctx.count > 0 THEN "active" ELSE "idle"])))

\* the catalog with an entry pasted twice
FodiTools_tools_Dup ==
    << [name |-> "list_files", required |-> <<>>],
       [name |-> "search_files", required |-> <<"query">>],
       [name |-> "get_file_info", required |-> <<"file_id">>],
       [name |-> "get_download_url", required |-> <<"file_id">>],
       [name |-> "get_download_url", required |-> <<"file_id">>],
       [name |-> "get_auth_url", required |-> <<>>],
       [name |-> "get_sse_status", required |-> <<>>] >>

\* the catalog the ListTools handler answers with: name and required arguments
FodiTools_tools ==
    << [name |-> "list_files", required |-> <<>>],
       [name |-> "search_files", required |-> <<"query">>],
       [name |-> "get_file_info", required |-> <<"file_id">>],
       [name |-> "get_download_url", required |-> <<"file_id">>],
       [name |-> "get_auth_url", required |-> <<>>],
       [name |-> "subscribe_changes", required |-> <<>>],
       [name |-> "get_sse_status", required |-> <<>>] >>

\* the switch without its last case
FodiTools_cases_Missing ==
    << "list_files", "search_files", "get_file_info", "get_download_url",
       "get_auth_url", "subscribe_changes" >>

\* the case labels of the switch, in order
FodiTools_cases ==
    << "list_files", "search_files", "get_file_info", "get_download_url",
       "get_auth_url", "subscribe_changes", "get_sse_status" >>

\* a switch whose default answers like the last case instead of throwing
FodiTools_switch_NoDefault(name, args, ctx) ==
    CASE name = "list_files" -> listFiles(args, ctx)
      [] name = "search_files" -> searchFiles(args, ctx)
      [] name = "get_file_info" -> getFileInfo(args, ctx)
      [] name = "get_download_url" -> getDownloadUrl(args, ctx)
      [] name = "get_auth_url" -> getAuthUrl(args, ctx)
      [] name = "subscribe_changes" -> subscribeChanges(args, ctx)
      [] OTHER -> getSseStatus(args, ctx)

\* the body of the try block: the first case that matches, else the default
FodiTools_switch(name, args, ctx) ==
    LET hits == {i \in 1..Len(FodiTools_cases) : FodiTools_cases[i] = name}
        case == IF hits = {} THEN "default"
                ELSE FodiTools_cases[CHOOSE i \in hits : \A j \in hits : i <= j]
    IN CASE case = "list_files" -> listFiles(args, ctx)
         [] case = "search_files" -> searchFiles(args, ctx)
         [] case = "get_file_info" -> getFileInfo(args, ctx)
         [] case = "get_download_url" -> getDownloadUrl(args, ctx)
         [] case = "get_auth_url" -> getAuthUrl(args, ctx)
         [] case = "subscribe_changes" -> subscribeChanges(args, ctx)
         [] case = "get_sse_status" -> getSseStatus(args, ctx)
         [] OTHER -> Thrown(<<"Unknown tool: ", name>>)

\* a catch that answers with the bare message
Catch_BareMessage(r) ==
    IF r.threw THEN Returned(TextResult([lead |-> "", rest |-> r.message])) ELSE r

\* catch (error): the message becomes the text of a result
Catch(r) == IF r.threw THEN Returned(TextResult(ErrorText(r.message))) ELSE r

\* the CallTool handler without its try/catch
FodiTools_call_NoCatch(name, args, ctx) == FodiTools_switch(name, args, ctx)

\* the CallTool handler of the Node server
FodiTools_call(name, args, ctx) == Catch(FodiTools_switch(name, args, ctx))

\* ---------------------------------------------------------- handleMcpTools
\* catch (error) { throw new Error(`Failed to ...: ${message}`) }
Wrap(prefix, r) == IF r.threw THEN Thrown(<<prefix>> \o r.message) ELSE r

\* await method(...); await response.json()
FetchJson(o) ==
    LET response == FileMethodsCall(o)
    IN IF response.threw THEN response ELSE ResponseJson(response.value)

\* data.value || []
ValueOr(data) == IF "value" \in DOMAIN data THEN data["value"] ELSE <<>>

handleListFiles(args, ctx) ==
    IF ~args.object THEN Thrown(TypeErrorMessage("path"))
    ELSE LET path == PathOr(args)
             data == FetchJson(ctx.o)
         IN IF data.threw THEN Wrap("Failed to list files: ", data)
            ELSE Returned(TextResult(JSON_stringify(
                    [path |-> path, files |-> ValueOr(data.value),
                     total |-> Len(ValueOr(data.value))])))

handleSearchFiles(args, ctx) ==
    IF ~args.object
    THEN Wrap("Failed to search files: ", Thrown(TypeErrorMessage("query")))
    ELSE LET data == FetchJson(ctx.o)
         IN IF data.threw THEN Wrap("Failed to search files: ", data)
            ELSE Returned(TextResult(JSON_stringify(
                    Spread(OptProp("query", args, "query"),
                           [results |-> ValueOr(data.value),
                            total |-> Len(ValueOr(data.value))]))))

\* the file asked for is the first the upstream names
handleGetFileInfo(args, ctx) ==
    IF ~args.object
    THEN Wrap("Failed to get file info: ", Thrown(TypeErrorMessage("path")))
    ELSE LET data == FetchJson(ctx.o)
         IN IF data.threw THEN Wrap("Failed to get file info: ", data)
            ELSE Returned(TextResult(JSON_stringify(
                    IF ValueOr(data.value) = <<>> THEN EmptyObj
                    ELSE ValueOr(data.value)[1])))

handleGetDownloadUrl(args, ctx) ==
    IF ~args.object
    THEN Wrap("Failed to get download URL: ", Thrown(TypeErrorMessage("path")))
    ELSE LET data == FetchJson(ctx.o)
         IN IF data.threw THEN Wrap("Failed to get download URL: ", data)
            ELSE Returned(TextResult(JSON_stringify(
                    Spread(OptProp("path", args, "path"),
                           IF "value" \in DOMAIN data.value
                           THEN [download_url |-> LinkOf(PathOr(args))]
                           ELSE EmptyObj))))

handleGetAuthUrl(args, ctx) ==
    Returned(TextResult(JSON_stringify(
        [auth_url |-> "authorize?client_id&redirect_uri",
         client_id |-> "78d4dc35-7e46-42c6-9023-2d39314433a5",
         redirect_uri |-> "http://localhost/onedrive-login"])))

handleGetFodiInfo(args, ctx) ==
    Returned(TextResult(JSON_stringify(
        [name |-> "FODI", version |-> "1.0.0",
         description |-> "OneDrive Directory Index"])))

handleMcpTools_tools ==
    << [name |-> "list_files", required |-> <<>>],
       [name |-> "search_files", required |-> <<"query">>],
       [name |-> "get_file_info", required |-> <<"path">>],
       [name |-> "get_download_url", required |-> <<"path">>],
       [name |-> "get_auth_url", required |-> <<>>],
       [name |-> "get_fodi_info", required |-> <<>>] >>

handleMcpTools_cases ==
    << "list_files", "search_files", "get_file_info", "get_download_url",
       "get_auth_url", "get_fodi_info" >>

handleMcpTools_switch(name, args, ctx) ==
    LET hits == {i \in 1..Len(handleMcpTools_cases) : handleMcpTools_cases[i] = name}
        case == IF hits = {} THEN "default"
                ELSE handleMcpTools_cases[CHOOSE i \in hits : \A j \in hits : i <= j]
    IN CASE case = "list_files" -> handleListFiles(args, ctx)
         [] case = "search_files" -> handleSearchFiles(args, ctx)
         [] case = "get_file_info" -> handleGetFileInfo(args, ctx)
         [] case = "get_download_url" -> handleGetDownloadUrl(args, ctx)
         [] case = "get_auth_url" -> handleGetAuthUrl(args, ctx)
         [] case = "get_fodi_info" -> handleGetFodiInfo(args, ctx)
         [] OTHER -> Thrown(<<"Unknown tool: ", name>>)

\* the CallTool handler of the Worker
handleMcpTools_call(name, args, ctx) == Catch(handleMcpTools_switch(name, args, ctx))

\* tools/list and tools/call of a dispatcher
ListToolsOf(d) == IF d = "server" THEN FodiTools_tools ELSE handleMcpTools_tools

CallToolOf(d, name, args, ctx) ==
    IF d = "server" THEN FodiTools_call(name, args, ctx)
    ELSE handleMcpTools_call(name, args, ctx)

\* whether the call awaits an upstream answer before it returns
AwaitsUpstream(d, name, args, token) ==
    /\ name \in {"list_files", "search_files", "get_file_info", "get_download_url"}
    /\ args.object
    /\ d = "server" => token # "null"

\* ----------------------------------------------------------------- state
Cur == [clients |-> clients, chans |-> chans, threw |-> FALSE]

\* the handler that ran last: its name and arguments, whether it raised, and
\* the ids it took out of the registry
Idle == [op |-> "none", id |-> NoId, ch |-> 0, threw |-> FALSE, removed |-> {}]

NoOutcome == [kind |-> "network", files |-> <<>>]

\* no tools request has been answered
NoReply ==
    [d |-> "none", method |-> "none", name |-> "", args |-> NoArguments,
     accessToken |-> "null", awaited |-> FALSE, o |-> NoOutcome,
     threw |-> FALSE, tools |-> <<>>, content |-> <<>>]

Init ==
    /\ clients = <<>>
    /\ pingInterval = "timer"
    /\ chans = <<>>
    /\ now = 0
    /\ nextTick = PING_PERIOD
    /\ seq = 0
    /\ advances = 0
    /\ subs = {}
    /\ sseIds = <<>>
    /\ last = Idle
    /\ accessToken = "null"
    /\ calls = <<>>
    /\ reply = NoReply

\* the handler's result s becomes the state
Commit(s, op, id, ch) ==
    /\ clients' = Compact(s.clients)
    /\ chans' = s.chans
    /\ last' = [op |-> op, id |-> id, ch |-> ch, threw |-> s.threw,
                removed |-> MapKeys(clients) \ MapKeys(s.clients)]

\* a handler run that issues an event; seq numbers these runs
Issue ==
    /\ seq < MaxEvents
    /\ seq' = seq + 1

\* sse.addClient(id, controller), with either kind of channel
AddClient(id, kind) ==
    /\ Len(chans) < MaxChannels
    /\ Issue
    /\ LET ch == Len(chans) + 1
           s0 == [Cur EXCEPT !.chans = Append(chans, NewChannel(kind, id))]
       IN Commit(addClient(s0, id, ch), "addClient", id, ch)
    /\ UNCHANGED <<pingInterval, now, nextTick, advances, subs, sseIds>>
    /\ UNCHANGED toolVars

\* GET /sse: sse.addClient(clientId, writer), then the abort listener is armed
Subscribe(suffix) ==
    /\ enableSse
    /\ Len(chans) < MaxChannels
    /\ Issue
    /\ LET id == ClientId(now, suffix)
           ch == Len(chans) + 1
           s0 == [Cur EXCEPT !.chans = Append(chans, NewChannel("writer", id))]
           s1 == addClient(s0, id, ch)
       IN /\ Commit(s1, "subscribe", id, ch)
          /\ subs' = IF s1.threw THEN subs ELSE subs \cup {<<id, ch>>}
          /\ sseIds' = Append(sseIds, id)
    /\ UNCHANGED <<pingInterval, now, nextTick, advances>>
    /\ UNCHANGED toolVars

\* an abort listener that shuts the whole registry: sse.closeAll()
Abort_CloseAll(sub) ==
    /\ Commit(closeAllFrom(Cur, 1), "abort", sub[1], sub[2])
    /\ subs' = subs \ {sub}
    /\ UNCHANGED <<pingInterval, now, nextTick, seq, advances, sseIds>>
    /\ UNCHANGED toolVars

\* the 'abort' listener of a GET /sse request; the signal aborts once
Abort(sub) ==
    /\ Commit(removeClient(Cur, sub[1]), "abort", sub[1], sub[2])
    /\ subs' = subs \ {sub}
    /\ UNCHANGED <<pingInterval, now, nextTick, seq, advances, sseIds>>
    /\ UNCHANGED toolVars

RemoveClient(id) ==
    /\ Commit(removeClient(Cur, id), "removeClient", id, 0)
    /\ UNCHANGED <<pingInterval, now, nextTick, seq, advances, subs, sseIds>>
    /\ UNCHANGED toolVars

\* what a direct caller of sendToClient sends (data: any)
UnicastData == [type |-> "notice", timestamp |-> IsoString]

SendToClient(id) ==
    /\ Issue
    /\ Commit(sendToClient(Cur, id, UnicastData), "sendToClient", id, 0)
    /\ UNCHANGED <<pingInterval, now, nextTick, advances, subs, sseIds>>
    /\ UNCHANGED toolVars

SomeFile == [id |-> "f1", name |-> "report.docx"]

\* POST /simulate-change
NotifyFileChange(kind) ==
    /\ enableSse
    /\ Issue
    /\ Commit(notifyFileChange(Cur, [type |-> kind, file |-> SomeFile,
                                     timestamp |-> IsoString]),
              "broadcast", NoId, 0)
    /\ UNCHANGED <<pingInterval, now, nextTick, advances, subs, sseIds>>
    /\ UNCHANGED toolVars

\* the interval timer fires, no earlier than it is due
Sweep ==
    /\ pingInterval = "timer"
    /\ now >= nextTick
    /\ Issue
    /\ Commit(sweep(Cur), "sweep", NoId, 0)
    /\ nextTick' = now + PING_PERIOD
    /\ UNCHANGED <<pingInterval, now, advances, subs, sseIds>>
    /\ UNCHANGED toolVars

\* stopPingInterval that leaves the timer running
stopPingInterval_KeepTimer(p) == p

stopPingInterval(p) == IF p # "null" THEN "null" ELSE p

StopPingInterval ==
    /\ pingInterval' = stopPingInterval(pingInterval)
    /\ last' = [Idle EXCEPT !.op = "stopPingInterval"]
    /\ UNCHANGED <<clients, chans, now, nextTick, seq, advances, subs, sseIds>>
    /\ UNCHANGED toolVars

CloseAll ==
    /\ pingInterval' = stopPingInterval(pingInterval)
    /\ Commit(closeAllFrom(Cur, 1), "closeAll", NoId, 0)
    /\ UNCHANGED <<now, nextTick, seq, advances, subs, sseIds>>
    /\ UNCHANGED toolVars

\* ----------------------------------------------------------- environment
\* the wall clock moves on
Advance ==
    /\ advances < MaxAdvances
    /\ now' = now + PING_PERIOD
    /\ advances' = advances + 1
    /\ last' = Idle
    /\ UNCHANGED <<clients, pingInterval, chans, nextTick, seq, subs, sseIds>>
    /\ UNCHANGED toolVars

\* the consumer cancels the stream: the controller stops being readable
ChannelBreak(ch) ==
    /\ \E i \in 1..Len(clients) : clients[i].value.controller = ch
    /\ chans[ch].kind = "controller"
    /\ chans[ch].state = "readable"
    /\ chans' = [chans EXCEPT ![ch].state = "cancelled"]
    /\ last' = Idle
    /\ UNCHANGED <<clients, pingInterval, now, nextTick, seq, advances, subs,
                   sseIds>>
    /\ UNCHANGED toolVars

\* the consumer stops reading; the stream stays open and queues what is written
StopReading(ch) ==
    /\ \E i \in 1..Len(clients) : clients[i].value.controller = ch
    /\ chans[ch].kind = "controller"
    /\ chans[ch].state = "readable"
    /\ chans[ch].stalledAt = -1
    /\ chans' = [chans EXCEPT ![ch].stalledAt = now]
    /\ last' = Idle
    /\ UNCHANGED <<clients, pingInterval, now, nextTick, seq, advances, subs,
                   sseIds>>
    /\ UNCHANGED toolVars

\* ------------------------------------------------------------ tools requests
\* GET /oauth/callback with a code the provider accepts: setAccessToken
OAuthCallback ==
    /\ accessToken' = "token"
    /\ last' = [Idle EXCEPT !.op = "oauth"]
    /\ UNCHANGED <<sseVars, calls, reply>>

\* tools/list
ListTools(d) ==
    /\ reply' = [NoReply EXCEPT !.d = d, !.method = "tools/list",
                                !.tools = ListToolsOf(d)]
    /\ last' = [Idle EXCEPT !.op = "tools/list"]
    /\ UNCHANGED <<sseVars, accessToken, calls>>

\* what a finished tools/call leaves: the request, what the call read (the
\* token, and the upstream's answer when it awaited one) and what it returned
CallReply(d, name, args, awaited, ctx) ==
    LET r == CallToolOf(d, name, args, ctx)
    IN [NoReply EXCEPT !.d = d, !.method = "tools/call", !.name = name,
                       !.args = args, !.accessToken = ctx.accessToken,
                       !.awaited = awaited, !.o = ctx.o, !.threw = r.threw,
                       !.content = IF r.threw THEN <<>> ELSE r.value.content]

\* tools/call: the call runs to its answer, or to the point where it awaits
\* the upstream
CallTool(d, name, args, suffix) ==
    /\ IF AwaitsUpstream(d, name, args, accessToken)
       THEN /\ Len(calls) < MaxCalls
            /\ calls' = Append(calls, [d |-> d, name |-> name, args |-> args,
                                       accessToken |-> accessToken])
            /\ last' = [Idle EXCEPT !.op = "tools/await"]
            /\ UNCHANGED reply
       ELSE /\ reply' = CallReply(d, name, args, FALSE,
                            Context(accessToken, NoOutcome, getClientCount(Cur),
                                    now, suffix))
            /\ last' = [Idle EXCEPT !.op = "tools/call"]
            /\ UNCHANGED calls
    /\ UNCHANGED <<sseVars, accessToken>>

\* the upstream answers the i-th call in flight, and the call runs to its end
Complete(i, o) ==
    /\ LET call == calls[i]
       IN reply' = CallReply(call.d, call.name, call.args, TRUE,
                       Context(call.accessToken, o, getClientCount(Cur),
                               now, "k3"))
    /\ calls' = SubSeq(calls, 1, i - 1) \o SubSeq(calls, i + 1, Len(calls))
    /\ last' = [Idle EXCEPT !.op = "tools/call"]
    /\ UNCHANGED <<sseVars, accessToken>>

\* the names callers ask for: the tools of either catalog, and one of neither
CatalogNames(d) == {ListToolsOf(d)[i].name : i \in 1..Len(ListToolsOf(d))}

ToolNames == UNION {CatalogNames(d) : d \in Dispatchers} \cup {"delete_file"}

\* the ids a caller passes: every id passed to addClient so far, and one more
\* (which one does not matter: the registry only compares ids)
UsedIds == {chans[c].owner : c \in 1..Len(chans)}

FreshId == ApiId(CHOOSE i \in 0..Len(chans) :
                    /\ ApiId(i) \notin UsedIds
                    /\ \A j \in 0..(i - 1) : ApiId(j) \in UsedIds)

CallerIds == UsedIds \cup {FreshId}

\* the registry, driven through its own operations
Next ==
    \/ \E id \in CallerIds, kind \in ChannelKinds : AddClient(id, kind)
    \/ \E id \in CallerIds : RemoveClient(id)
    \/ \E id \in CallerIds : SendToClient(id)
    \/ \E kind \in FileKinds : NotifyFileChange(kind)
    \/ Sweep
    \/ StopPingInterval
    \/ CloseAll
    \/ Advance
    \/ \E ch \in 1..Len(chans) : ChannelBreak(ch)

Spec == Init /\ [][Next]_vars

\* the same, with the streaming endpoint of the HTTP server
HttpNext ==
    \/ Next
    \/ \E r \in RandomSuffixes : Subscribe(r)
    \/ \E sub \in subs : Abort(sub)

HttpSpec == Init /\ [][HttpNext]_vars

\* the same, with consumers that stop reading
StallNext ==
    \/ Next
    \/ \E ch \in 1..Len(chans) : StopReading(ch)

StallSpec == Init /\ [][StallNext]_vars

\* the arguments callers send: none, an empty object, every argument a tool reads
ArgsInputs ==
    { NoArguments,
      Arguments(EmptyObj),
      Arguments([path |-> "/docs", query |-> <<"d", "o", "c">>, file_id |-> "f1"]) }

\* a process runs one dispatcher: the one its requests so far went to
Running == ({reply.d} \cup {calls[i].d : i \in 1..Len(calls)}) \ {"none"}

Deployed == IF Running = {} THEN Dispatchers ELSE Running

\* Math.random() is read by subscribe_changes only
SuffixesFor(name) == IF name = "subscribe_changes" THEN RandomSuffixes ELSE {"k3"}

\* the tools endpoint of either dispatcher, before and after the OAuth callback
ToolNext ==
    \/ OAuthCallback
    \/ \E d \in Deployed : ListTools(d)
    \/ \E d \in Deployed, name \in ToolNames, args \in ArgsInputs :
          \E r \in SuffixesFor(name) : CallTool(d, name, args, r)
    \/ \E i \in 1..Len(calls), o \in Outcomes : Complete(i, o)

ToolSpec == Init /\ [][ToolNext]_vars

\* the status query of the Node server, next to a registry that changes
StatusNext ==
    \/ \E id \in CallerIds, kind \in ChannelKinds : AddClient(id, kind)
    \/ \E id \in CallerIds : RemoveClient(id)
    \/ \E kind \in FileKinds : NotifyFileChange(kind)
    \/ \E ch \in 1..Len(chans) : ChannelBreak(ch)
    \/ CloseAll
    \/ \E args \in {NoArguments, Arguments(EmptyObj)} :
          CallTool("server", "get_sse_status", args, "k3")

StatusSpec == Init /\ [][StatusNext]_vars

\* the streaming endpoint with its abort listener, next to tool calls in flight
AbortNext ==
    \/ \E r \in RandomSuffixes : Subscribe(r)
    \/ \E sub \in subs : Abort(sub)
    \/ \E id \in CallerIds : AddClient(id, "controller")
    \/ NotifyFileChange("updated")
    \/ Advance
    \/ CallTool("worker", "list_files", Arguments(EmptyObj), "k3")
    \/ \E i \in 1..Len(calls), o \in {oc \in Outcomes : oc.kind \in {"status", "nofield"}} :
          Complete(i, o)

AbortSpec == Init /\ [][AbortNext]_vars

\* ------------------------------------------------------------------------
\* helpers of the properties
ChannelOf(m, id) == MapGet(m, id).controller

LastChunk(c) == c.written[Len(c.written)]

\* channel c got exactly one more chunk in this step, and it carries serial n
GotOne(c, n) ==
    /\ Len(chans'[c].written) = Len(chans[c].written) + 1
    /\ SubSeq(chans'[c].written, 1, Len(chans[c].written)) = chans[c].written
    /\ LastChunk(chans'[c]).n = n

\* C1: a broadcast writes the event exactly once to every client that was
\* registered when it started and whose channel accepts the write, and removes
\* every client whose channel does not; a removal during the iteration makes
\* no other client be skipped or written twice.
C1_BroadcastExactlyOnce ==
    [][last'.op = "broadcast" =>
        \A id \in MapKeys(clients) :
            LET c == ChannelOf(clients, id)
            IN IF CanEnqueue(chans[c])
               THEN /\ MapHas(clients', id)
                    /\ GotOne(c, seq')
                    /\ \A id2 \in MapKeys(clients') :
                          LastChunk(chans'[ChannelOf(clients', id2)])
                              = LastChunk(chans'[c])
               ELSE /\ ~MapHas(clients', id)
                    /\ chans'[c].written = chans[c].written]_vars

\* a broadcast removed a client whose write failed and still reached a client
\* that comes later in the iteration
C1_Witness ==
    /\ last.op = "broadcast"
    /\ \E c1, c2 \in 1..Len(chans) :
          /\ c1 < c2
          /\ chans[c1].owner \in last.removed
          /\ chans[c1].kind = "controller"
          /\ MapHas(clients, chans[c2].owner)
          /\ ChannelOf(clients, chans[c2].owner) = c2
          /\ LastChunk(chans[c2]).n = seq

\* C2: after addClient(id, channel) returns, id is a member of the registry,
\* whatever the channel (also one whose first write fails).
C2_MemberAfterAddClient ==
    last.op \in {"addClient", "subscribe"} => MapHas(clients, last.id)

\* C3: addClient(id, channel) for an id that is not registered writes exactly
\* one 'connected' event carrying id to that channel, writes to no other
\* channel, and raises the client count by one.
C3_ConnectedOnceAndCounted ==
    [][(last'.op \in {"addClient", "subscribe"} /\ ~MapHas(clients, last'.id)) =>
        /\ chans'[last'.ch].written
             = <<[n |-> seq', frame |-> SseFrame(ConnectedEvent(last'.id))]>>
        /\ \A c \in 1..Len(chans) : chans'[c].written = chans[c].written
        /\ MapSize(clients') = MapSize(clients) + 1]_vars

\* the operations that send: the ids they send to, and whether the write to
\* id's channel fails
SendingOps == {"sendToClient", "broadcast", "addClient", "sweep"}

\* C4: whenever the write to a client's channel fails inside sendToClient
\* (called directly, by broadcast, by addClient or by the sweep), the client
\* is removed from the registry and the operation returns normally.
C4_FailedWriteEvictsSilently ==
    [][last'.op \in SendingOps =>
        /\ ~last'.threw
        /\ last'.op = "addClient" =>
              (~CanEnqueue(NewChannel(chans'[last'.ch].kind, last'.id))
                   => ~MapHas(clients', last'.id))
        /\ \A id \in MapKeys(clients) :
              (/\ last'.op = "sendToClient" => id = last'.id
               /\ last'.op = "addClient" => FALSE
               /\ ~CanEnqueue(chans[ChannelOf(clients, id)]))
                   => ~MapHas(clients', id)]_vars

\* a direct sendToClient met a cancelled stream, removed the client and
\* returned normally
C4_Witness ==
    /\ last.op = "sendToClient"
    /\ last.removed = {last.id}
    /\ ~last.threw
    /\ \E c \in 1..Len(chans) :
          chans[c].owner = last.id /\ chans[c].state = "cancelled"

Age(m, id) == now - MapGet(m, id).lastPing

\* C5: a sweep tick removes exactly the clients whose last successful send is
\* more than 30 s before the tick and those whose ping fails; none of the
\* first kind is left afterwards, the client count drops by one per removed
\* client, and removeClient for a removed id then changes nothing.
C5_SweepEvictsStale ==
    [][last'.op = "sweep" =>
        /\ last'.removed = {id \in MapKeys(clients) :
                                \/ Age(clients, id) > TIMEOUT
                                \/ ~CanEnqueue(chans[ChannelOf(clients, id)])}
        /\ \A id \in MapKeys(clients') : Age(clients', id) <= TIMEOUT
        /\ MapKeys(clients') = MapKeys(clients) \ last'.removed
        /\ MapSize(clients') = MapSize(clients) - Cardinality(last'.removed)
        /\ \A id \in last'.removed :
              LET s == [clients |-> clients', chans |-> chans', threw |-> FALSE]
              IN removeClient(s, id) = s]_vars

\* a tick found a client with a readable stream past its timeout and removed
\* it without a ping
C5_Witness ==
    /\ last.op = "sweep"
    /\ \E c \in 1..Len(chans) :
          /\ chans[c].owner \in last.removed
          /\ chans[c].kind = "controller"
          /\ chans[c].state = "closed"
          /\ chans[c].closeCalls = 1
          /\ LastChunk(chans[c]).n < seq

\* C6: a client that stops reading its stream is out of the registry no later
\* than the first sweep tick after 30 s have passed since it stopped.
C6_StalledClientReclaimed ==
    last.op = "sweep" =>
        \A id \in MapKeys(clients) :
            LET c == chans[ChannelOf(clients, id)]
            IN c.stalledAt = -1 \/ now - c.stalledAt <= TIMEOUT

\* C7: removeClient never raises and leaves id out of the registry; for an id
\* that is not registered it changes neither the registry nor any channel (no
\* close, no write), so a second call after a first changes nothing.
C7_RemoveClientIdempotent ==
    [][last'.op = "removeClient" =>
        /\ ~last'.threw
        /\ ~MapHas(clients', last'.id)
        /\ ~MapHas(clients, last'.id) => (clients' = clients /\ chans' = chans)
        /\ LET s == [clients |-> clients', chans |-> chans', threw |-> FALSE]
           IN removeClient(s, last'.id) = s]_vars

\* removeClient ran for an id that had been registered and removed before
C7_Witness ==
    /\ last.op = "removeClient"
    /\ last.removed = {}
    /\ last.id \in UsedIds
    /\ ~MapHas(clients, last.id)
    /\ ~last.threw

\* C8: removeClient for a registered id whose channel refuses to close still
\* removes the entry, after one close attempt, and returns normally.
C8_RemoveSurvivesCloseFailure ==
    [][(/\ last'.op \in {"removeClient", "abort"}
        /\ MapHas(clients, last'.id)
        /\ CloseThrows(chans[ChannelOf(clients, last'.id)])) =>
        /\ ~MapHas(clients', last'.id)
        /\ MapSize(clients') = MapSize(clients) - 1
        /\ ~last'.threw
        /\ LET c == ChannelOf(clients, last'.id)
           IN chans'[c].closeCalls = chans[c].closeCalls + 1]_vars

\* removeClient removed a client whose stream the consumer had cancelled
C8_Witness ==
    /\ last.op = "removeClient"
    /\ last.removed = {last.id}
    /\ ~last.threw
    /\ \E c \in 1..Len(chans) :
          /\ chans[c].owner = last.id
          /\ chans[c].state = "cancelled"
          /\ chans[c].closeCalls = 1

EventOf(chunk) == chunk.frame[2]

Members == {id \in MapKeys(clients) :
               chans[ChannelOf(clients, id)].written # <<>>}

\* C9: what a channel has been written is the 'connected' event of its own
\* registration first, then the events sent to it while it was a member, in
\* the order they were issued (no second 'connected', nothing issued before
\* the registration); and every event sent to all members has reached every
\* current member that was registered when it was issued.
C9_PerClientOrder ==
    /\ \A c \in 1..Len(chans) :
          LET w == chans[c].written
          IN w # <<>> =>
               /\ EventOf(w[1]) = ConnectedEvent(chans[c].owner)
               /\ \A i \in 2..Len(w) :
                     /\ w[i - 1].n < w[i].n
                     /\ EventOf(w[i]).type # "connected"
    /\ \A a, b \in Members :
          LET wa == chans[ChannelOf(clients, a)].written
              wb == chans[ChannelOf(clients, b)].written
          IN \A i \in 2..Len(wa) :
                (wa[i].n > wb[1].n /\ EventOf(wa[i]).type # UnicastData.type)
                    => \E j \in 2..Len(wb) : wb[j] = wa[i]

\* a client was written its 'connected' event, then a ping, then a broadcast
C9_Witness ==
    \E c \in 1..Len(chans) :
        /\ Len(chans[c].written) = 3
        /\ EventOf(chans[c].written[1]).type = "connected"
        /\ EventOf(chans[c].written[2]).type = "ping"
        /\ EventOf(chans[c].written[3]).type \in FileKinds

\* C10: every GET /sse request is registered under an identifier that no
\* earlier request was registered under.
C10_FreshIdentifiers ==
    \A i, j \in 1..Len(sseIds) : i # j => sseIds[i] # sseIds[j]

\* the event types the stream documents
EventTypes == {"connected", "file_change", "ping"}

\* C11: every event the server writes to a client channel carries a type out
\* of 'connected', 'file_change' and 'ping' (a direct caller's own unicast
\* payload aside); the event notifyFileChange writes has type 'file_change'
\* whatever the kind of change.
C11_EventTypes ==
    \A c \in 1..Len(chans) :
        \A i \in 1..Len(chans[c].written) :
            LET e == EventOf(chans[c].written[i])
            IN e # UnicastData => e.type \in EventTypes

\* the streams of the GET /sse requests whose abort notification was delivered
Aborted ==
    {c \in 1..Len(chans) :
        /\ chans[c].kind = "writer"
        /\ \A sub \in subs : sub[2] # c}

\* C12: the abort notification of a subscribed client does removeClient for
\* that client's id and nothing else: the id is not a member afterwards, every
\* other client keeps its entry (channel and timestamp) and its stream, no
\* event is written, no tool call in flight and no tool answer changes; and
\* the stream of an aborted request is written nothing from then on.
C12_AbortOnlyRemoves ==
    [][/\ last'.op = "abort" =>
            /\ ~MapHas(clients', last'.id)
            /\ MapKeys(clients') = MapKeys(clients) \ {last'.id}
            /\ \A id \in MapKeys(clients') :
                  /\ MapGet(clients', id) = MapGet(clients, id)
                  /\ chans'[ChannelOf(clients', id)] = chans[ChannelOf(clients, id)]
            /\ \A c \in 1..Len(chans) : chans'[c].written = chans[c].written
            /\ <<calls', reply', accessToken'>> = <<calls, reply, accessToken>>
            /\ <<pingInterval', now', nextTick'>> = <<pingInterval, now, nextTick>>
       /\ \A c \in Aborted : chans'[c].written = chans[c].written]_vars

\* an abort was delivered while a tool call was in flight and another client,
\* registered at another time, was a member
C12_Witness ==
    /\ last.op = "abort"
    /\ calls # <<>>
    /\ \E id \in MapKeys(clients) :
          /\ id # last.id
          /\ MapGet(clients, id).lastPing # last.id[1]
          /\ chans[ChannelOf(clients, id)].written # <<>>

\* the text of the only content item of the last tools/call answer
ReplyText == reply.content[1].text

\* the last step answered a tools/call for tool n
Answered(n) == last.op = "tools/call" /\ reply.method = "tools/call" /\ reply.name = n

\* C13: the status query answers with connected_clients equal to the number of
\* clients in the registry at that moment (never negative), and with status
\* 'active' exactly when that number is above 0 and 'idle' exactly when it is 0.
C13_StatusMatchesRegistry ==
    Answered("get_sse_status") =>
        /\ ~reply.threw
        /\ ReplyText.lead = "{"
        /\ ReplyText.rest["connected_clients"] = MapSize(clients)
        /\ ReplyText.rest["connected_clients"] >= 0
        /\ ReplyText.rest["status"] \in {"active", "idle"}
        /\ ReplyText.rest["status"] = "active" <=> MapSize(clients) > 0
        /\ ReplyText.rest["status"] = "idle" <=> MapSize(clients) = 0

\* the status query ran with one client registered after another had been
\* removed
C13_Witness ==
    /\ Answered("get_sse_status")
    /\ ReplyText.rest["connected_clients"] = 1
    /\ ReplyText.rest["status"] = "active"
    /\ \E c \in 1..Len(chans) : chans[c].closeCalls > 0

\* the last step answered a tools/call
AnsweredCall == last.op = "tools/call" /\ reply.method = "tools/call"

CasesOf(d) == IF d = "server" THEN FodiTools_cases ELSE handleMcpTools_cases

\* the names the switch of dispatcher d has a case for
RoutedNames(d) == {CasesOf(d)[i] : i \in 1..Len(CasesOf(d))}

UnknownToolText(n) == ErrorText(<<"Unknown tool: ", n>>)

\* C14: for every tool name the dispatcher has no case for, and any
\* arguments, the tool-call handler returns one text item reading
\* "Error: Unknown tool: " followed by the name, and raises nothing.
C14_UnknownTool ==
    (AnsweredCall /\ reply.name \notin RoutedNames(reply.d)) =>
        /\ ~reply.threw
        /\ reply.content = <<[type |-> "text", text |-> UnknownToolText(reply.name)]>>

\* the Node server was asked for the Worker's tool, with arguments
C14_Witness ==
    /\ AnsweredCall
    /\ reply.d = "server"
    /\ reply.name = "get_fodi_info"
    /\ reply.args.object
    /\ ReplyText = UnknownToolText("get_fodi_info")

\* the tools that call a collaborator
FileTools == {"list_files", "search_files", "get_file_info", "get_download_url"}

\* the argument a handler reads first
FirstArg(d, name) ==
    CASE name = "search_files" -> "query"
      [] name \in {"get_file_info", "get_download_url"} ->
            IF d = "server" THEN "file_id" ELSE "path"
      [] OTHER -> "path"

\* the tools whose handler reads its arguments
ReadsArgs(d) == FileTools \cup (IF d = "server" THEN {"subscribe_changes"} ELSE {})

\* the message of the failure the call rp met while its handler ran, <<>> if
\* it met none
FailureDetail(rp) ==
    IF rp.name \notin RoutedNames(rp.d) \/ rp.name \notin ReadsArgs(rp.d) THEN <<>>
    ELSE IF ~rp.args.object THEN TypeErrorMessage(FirstArg(rp.d, rp.name))
    ELSE IF rp.name \notin FileTools THEN <<>>
    ELSE IF rp.d = "server" /\ rp.accessToken = "null" THEN <<"Access token not set">>
    ELSE IF rp.o.kind = "network" THEN <<"fetch failed">>
    ELSE IF rp.o.kind = "status" THEN <<StatusText>>
    ELSE IF rp.o.kind = "badjson" THEN <<"Unexpected token < in JSON at position 0">>
    ELSE IF rp.o.kind = "nofield" /\ rp.d = "server"
                /\ rp.name \in {"list_files", "search_files"}
         THEN TypeErrorMessage("map")
    ELSE IF rp.o.kind = "nofield" /\ rp.d = "server" /\ rp.name = "get_download_url"
         THEN TypeErrorMessage("webUrl")
    ELSE <<>>

EndsWith(w, suffix) ==
    /\ Len(w) >= Len(suffix)
    /\ SubSeq(w, Len(w) - Len(suffix) + 1, Len(w)) = suffix

\* C15: whatever fails while a tool's handler runs (a collaborator failing, the
\* arguments object absent, the response not readable), the tool-call handler
\* returns normally, with the text "Error: " followed by the message of the
\* failure (behind the prefix a handler wraps it in, where one does); no
\* failure leaves the dispatcher.
C15_FailuresBecomeErrorText ==
    AnsweredCall =>
        /\ ~reply.threw
        /\ FailureDetail(reply) # <<>> =>
              /\ Len(reply.content) = 1
              /\ ReplyText.lead = "Error: "
              /\ EndsWith(ReplyText.rest, FailureDetail(reply))

\* a call that awaited the upstream met a response that does not parse
C15_Witness ==
    /\ AnsweredCall
    /\ reply.awaited
    /\ reply.o.kind = "badjson"
    /\ ReplyText.lead = "Error: "

\* C16: every answer of the tool-call handler, for a known or unknown tool and
\* whatever the collaborator did, has exactly one content item, of type
\* 'text', whose text is a JSON serialisation when the call succeeded and
\* starts with "Error: " when it failed; there is no third shape.
C16_ResultShape ==
    AnsweredCall =>
        /\ ~reply.threw
        /\ Len(reply.content) = 1
        /\ reply.content[1].type = "text"
        /\ ReplyText.lead \in {"{", "Error: "}
        /\ ReplyText.lead = "Error: " <=>
              (reply.name \notin RoutedNames(reply.d) \/ FailureDetail(reply) # <<>>)

\* a call that awaited the upstream succeeded with a JSON text
C16_Witness ==
    /\ AnsweredCall
    /\ reply.awaited
    /\ reply.o.kind = "data"
    /\ reply.o.files # <<>>
    /\ ReplyText.lead = "{"

\* the prefixes the handlers wrap a collaborator's failure in
FailedTo ==
    {"Failed to list files: ", "Failed to search files: ", "Failed to get file: ",
     "Failed to get file info: ", "Failed to get download URL: "}

\* C17: a failure of a collaborator call (no access token, a path not found,
\* an upstream request failing) reaches the caller of list_files, search_files,
\* get_file_info and get_download_url as "Error: Failed to <operation>: <detail>".
C17_CollaboratorFailuresWrapped ==
    (/\ AnsweredCall
     /\ reply.name \in FileTools
     /\ reply.args.object
     /\ \/ reply.d = "server" /\ reply.accessToken = "null"
        \/ reply.awaited /\ reply.o.kind \in {"network", "status"}) =>
        /\ ~reply.threw
        /\ ReplyText.lead = "Error: "
        /\ Len(ReplyText.rest) >= 2
        /\ ReplyText.rest[1] \in FailedTo

\* the last step answered a tools/list
Listed == last.op = "tools/list" /\ reply.method = "tools/list"

NamesOf(tools) == [i \in 1..Len(tools) |-> tools[i].name]

NoDuplicates(w) == \A i, j \in 1..Len(w) : i # j => w[i] # w[j]

StandardTools ==
    << "list_files", "search_files", "get_file_info", "get_download_url",
       "get_auth_url", "get_fodi_info" >>

ServerTools ==
    << "list_files", "search_files", "get_file_info", "get_download_url",
       "get_auth_url", "subscribe_changes", "get_sse_status" >>

\* C18 as stated: tools/list answers, on every call and whatever went before,
\* with the same ordered list of exactly 6 descriptors named list_files,
\* search_files, get_file_info, get_download_url, get_auth_url and
\* get_fodi_info, no name twice.
C18_SixStandardTools ==
    Listed =>
        /\ Len(reply.tools) = 6
        /\ NamesOf(reply.tools) = StandardTools
        /\ NoDuplicates(NamesOf(reply.tools))

\* C18 as amended: tools/list answers, on every call and whatever went before,
\* with the same ordered list of descriptors, no name twice: the 6 standard
\* tools on the Worker; on the Node server the 7 tools list_files,
\* search_files, get_file_info, get_download_url, get_auth_url,
\* subscribe_changes and get_sse_status.
C18_StableCatalog ==
    Listed =>
        /\ NamesOf(reply.tools) = IF reply.d = "worker" THEN StandardTools
                                  ELSE ServerTools
        /\ Len(reply.tools) = IF reply.d = "worker" THEN 6 ELSE 7
        /\ NoDuplicates(NamesOf(reply.tools))

\* the Node server listed its tools after the token was set and while a call
\* was in flight
C18_Witness ==
    /\ Listed
    /\ reply.d = "server"
    /\ accessToken = "token"
    /\ calls # <<>>

\* C19: the catalog and the switch of a dispatcher name the same tools: every
\* name tools/list returns has exactly one case (a call to it never ends in
\* the 'Unknown tool' branch), and every name with a case is listed exactly
\* once.
C19_CatalogMatchesRouting ==
    /\ Listed =>
          /\ {reply.tools[i].name : i \in 1..Len(reply.tools)} = RoutedNames(reply.d)
          /\ NoDuplicates(NamesOf(reply.tools))
          /\ NoDuplicates(CasesOf(reply.d))
    /\ AnsweredCall =>
          (reply.name \in CatalogNames(reply.d)
              <=> (reply.threw \/ ReplyText # UnknownToolText(reply.name)))

\* a tool only the Node server lists was called there and was answered by its
\* handler
C19_Witness ==
    /\ AnsweredCall
    /\ reply.d = "server"
    /\ reply.name = "get_sse_status"
    /\ ReplyText.lead = "{"

UpperCase ==
    << "A","B","C","D","E","F","G","H","I","J","K","L","M",
       "N","O","P","Q","R","S","T","U","V","W","X","Y","Z" >>

LowerCase ==
    << "a","b","c","d","e","f","g","h","i","j","k","l","m",
       "n","o","p","q","r","s","t","u","v","w","x","y","z" >>

\* String.prototype.toLowerCase, on a list of characters
toLowerCase(w) ==
    [i \in 1..Len(w) |->
        IF \E k \in 1..26 : UpperCase[k] = w[i]
        THEN LowerCase[CHOOSE k \in 1..26 : UpperCase[k] = w[i]]
        ELSE w[i]]

\* String.prototype.includes
includes(w, part) ==
    \E i \in 0..(Len(w) - Len(part)) : SubSeq(w, i + 1, i + Len(part)) = part

\* files.filter(file => file.name.toLowerCase().includes(query.toLowerCase()))
Matching(files, query) ==
    SelectSeq(files, LAMBDA f : includes(toLowerCase(f.name), toLowerCase(query)))

\* C20: search_files answers from the listing of one directory with exactly
\* the entries whose name contains the query, letter case aside, in listing
\* order, with total the number of entries returned and a note that the
\* search is limited; for report.docx, image.png, document.txt and the query
\* "doc" these are the two names containing "doc", and total is 2.
C20_SearchFallback ==
    (/\ AnsweredCall
     /\ reply.name = "search_files"
     /\ reply.awaited
     /\ reply.o.kind = "data"
     /\ Has(reply.args, "query")) =>
        /\ ReplyText.lead = "{"
        /\ NamesOf(ReplyText.rest["results"])
              = NamesOf(Matching(reply.o.files, reply.args.fields["query"]))
        /\ ReplyText.rest["total"] = Len(ReplyText.rest["results"])
        /\ "note" \in DOMAIN ReplyText.rest
        /\ (reply.o.files = Drive /\ reply.args.fields["query"] = <<"d", "o", "c">>) =>
              /\ NamesOf(ReplyText.rest["results"]) = <<Drive[1].name, Drive[3].name>>
              /\ ReplyText.rest["total"] = 2

\* C21: a sweep tick handles every client registered when it starts exactly
\* once, in one of two ways: a client whose timestamp is more than 30 s before
\* the tick is removed and sent nothing; any other client (one exactly 30 s
\* old included) is sent exactly one 'ping', which is written once when its
\* channel takes it and evicts the client when it does not.  A removal during
\* the tick makes no other client be skipped.
C21_SweepHandlesEachOnce ==
    [][last'.op = "sweep" =>
        \A id \in MapKeys(clients) :
            LET c == ChannelOf(clients, id)
            IN IF Age(clients, id) > TIMEOUT
               THEN /\ ~MapHas(clients', id)
                    /\ chans'[c].written = chans[c].written
                    /\ chans'[c].closeCalls = chans[c].closeCalls + 1
               ELSE IF CanEnqueue(chans[c])
               THEN /\ MapHas(clients', id)
                    /\ GotOne(c, seq')
                    /\ EventOf(LastChunk(chans'[c])) = PingEvent
                    /\ chans'[c].closeCalls = chans[c].closeCalls
               ELSE /\ ~MapHas(clients', id)
                    /\ chans'[c].written = chans[c].written
                    /\ chans'[c].closeCalls = chans[c].closeCalls + 1]_vars

\* one tick removed a client for its age, without a ping, and pinged a client
\* that comes after it in the registry
C21_Witness ==
    /\ last.op = "sweep"
    /\ \E c1, c2 \in 1..Len(chans) :
          /\ c1 < c2
          /\ chans[c1].owner \in last.removed
          /\ chans[c1].state = "closed"
          /\ chans[c1].written # <<>>
          /\ LastChunk(chans[c1]).n < seq
          /\ chans[c2].written # <<>>
          /\ MapHas(clients, chans[c2].owner)
          /\ ChannelOf(clients, chans[c2].owner) = c2
          /\ LastChunk(chans[c2]) = [n |-> seq, frame |-> SseFrame(PingEvent)]

\* channel c holds more chunks after the step than before it
Wrote(c) ==
    Len(chans'[c].written) > (IF c <= Len(chans) THEN Len(chans[c].written) ELSE 0)

\* C22: a client's liveness timestamp is the time of its registration until a
\* send to it succeeds; every successful send sets it to the current time and
\* nothing else changes it, so it never decreases.  A failed send, and any
\* operation on other clients, leaves it as it was.
C22_LastPingFrame ==
    [][\A id \in MapKeys(clients') :
          LET c   == ChannelOf(clients', id)
              new == MapGet(clients', id).lastPing
          IN /\ Wrote(c) => new = now'
             /\ MapHas(clients, id) =>
                   /\ new >= MapGet(clients, id).lastPing
                   /\ new # MapGet(clients, id).lastPing => Wrote(c) /\ new = now'
             /\ ~MapHas(clients, id) => last'.op = "addClient" /\ new = now']_vars

\* a send to one client, some time after its registration, moved its
\* timestamp to the current time and left an older timestamp of another
\* client alone
C22_Witness ==
    /\ last.op = "sendToClient"
    /\ now > 0
    /\ MapHas(clients, last.id)
    /\ MapGet(clients, last.id).lastPing = now
    /\ LastChunk(chans[ChannelOf(clients, last.id)]).n = seq
    /\ \E other \in MapKeys(clients) : MapGet(clients, other).lastPing < now

\* -------------------------------------------------------- punctual ticks
\* the wall clock moves on, and never past a tick of the running timer: the
\* interval callback runs when it is due
AdvanceOnTime ==
    /\ pingInterval = "timer" => now < nextTick
    /\ Advance

\* the registry with an event loop that is never late for setInterval
TimelyNext ==
    \/ \E id \in CallerIds, kind \in ChannelKinds : AddClient(id, kind)
    \/ \E id \in CallerIds : RemoveClient(id)
    \/ \E id \in CallerIds : SendToClient(id)
    \/ \E kind \in FileKinds : NotifyFileChange(kind)
    \/ Sweep
    \/ StopPingInterval
    \/ CloseAll
    \/ AdvanceOnTime
    \/ \E ch \in 1..Len(chans) : ChannelBreak(ch)

TimelySpec == Init /\ [][TimelyNext]_vars

\* C23: when every tick of the sweep runs as it falls due, 15 s after the one
\* before, and a write succeeds or fails at once, every client registered at
\* a tick has a timestamp at most 15 s old: the tick removes a client only
\* because its ping could not be written, never for its age.  Every removal
\* is then a failed write (of an event, or of the greeting of a registration
\* under the same identifier), a removeClient call or closeAll.
C23_TimeoutBranchDead ==
    [][/\ last'.op = "sweep" =>
           \A id \in MapKeys(clients) :
               /\ Age(clients, id) <= PING_PERIOD
               /\ id \in last'.removed =>
                      ~CanEnqueue(chans[ChannelOf(clients, id)])
       /\ \A id \in MapKeys(clients) :
               ~MapHas(clients', id) =>
                   \/ last'.op \in {"removeClient", "closeAll"}
                   \/ /\ last'.op = "addClient"
                      /\ last'.id = id
                      /\ chans'[last'.ch].written = <<>>
                   \/ /\ last'.op # "addClient"
                      /\ ~CanEnqueue(chans[ChannelOf(clients, id)])]_vars

\* two ticks in a row found the same client, 15 s old each time, and pinged it
C23_Witness ==
    /\ last.op = "sweep"
    /\ now = 2 * PING_PERIOD
    /\ \E id \in MapKeys(clients) :
          LET w == chans[ChannelOf(clients, id)].written
          IN /\ Len(w) = 3
             /\ EventOf(w[1]) = ConnectedEvent(id)
             /\ EventOf(w[2]) = PingEvent
             /\ EventOf(w[3]) = PingEvent

\* a channel the registry held once and was handed a replacement for: no
\* entry names it and it was never closed
Replaced(c) ==
    /\ chans[c].closeCalls = 0
    /\ \A i \in 1..Len(clients) :
          clients[i].live => clients[i].value.controller # c

\* C24: addClient under an identifier that is registered, with a second
\* channel, replaces the entry: the client count is the same, the entry holds
\* the second channel, the first channel is not closed and not written by
\* this or any later operation, and a later removeClient under the identifier
\* closes the second channel only.
C24_ReRegistrationReplaces ==
    [][/\ (last'.op = "addClient" /\ MapHas(clients, last'.id)) =>
            /\ MapSize(clients') = MapSize(clients)
            /\ MapHas(clients', last'.id)
            /\ ChannelOf(clients', last'.id) = last'.ch
            /\ chans'[ChannelOf(clients, last'.id)]
                  = chans[ChannelOf(clients, last'.id)]
       /\ \A c \in 1..Len(chans) : Replaced(c) => chans'[c] = chans[c]
       /\ (last'.op = "removeClient" /\ MapHas(clients, last'.id)) =>
            \A c \in 1..Len(chans) :
                chans'[c] # chans[c] => c = ChannelOf(clients, last'.id)]_vars

\* C25: once a client is removed (the close of its channel was attempted),
\* nothing is written to that channel again and it is not closed a second
\* time, whatever is called afterwards under its identifier or any other.
C25_RemovedChannelUntouched ==
    [][\A c \in 1..Len(chans) :
          chans[c].closeCalls >= 1 =>
              /\ chans'[c].written = chans[c].written
              /\ chans'[c].closeCalls = 1]_vars

\* a send named a client that had been removed after receiving its greeting:
\* the client is still absent and its closed channel holds the greeting only
C25_Witness ==
    /\ last.op = "sendToClient"
    /\ ~MapHas(clients, last.id)
    /\ \E c \in 1..Len(chans) :
          /\ chans[c].owner = last.id
          /\ chans[c].closeCalls = 1
          /\ Len(chans[c].written) = 1
          /\ LastChunk(chans[c]).n < seq

\* C26: closeAll leaves the registry empty, has attempted the close of the
\* channel of every client that was registered exactly once (a close that
\* throws included) and touched no other channel, and leaves the timer
\* stopped.  A stopped timer stays stopped: no tick runs afterwards, so no
\* ping is sent and no client is evicted for its age, and stopPingInterval
\* on a stopped timer changes nothing.
C26_CloseAllShutsDown ==
    [][/\ last'.op = "closeAll" =>
            /\ MapSize(clients') = 0
            /\ ~last'.threw
            /\ pingInterval' = "null"
            /\ last'.removed = MapKeys(clients)
            /\ \A c \in 1..Len(chans) :
                  IF \E id \in MapKeys(clients) : ChannelOf(clients, id) = c
                  THEN /\ chans'[c].closeCalls = 1
                       /\ chans'[c].written = chans[c].written
                  ELSE chans'[c] = chans[c]
       /\ pingInterval = "null" =>
            /\ pingInterval' = "null"
            /\ last'.op # "sweep"
            /\ last'.op = "stopPingInterval" =>
                  /\ clients' = clients
                  /\ chans' = chans]_vars

\* closeAll found two clients, one of them with a cancelled stream whose
\* close throws, and removed both
C26_Witness ==
    /\ last.op = "closeAll"
    /\ clients = <<>>
    /\ pingInterval = "null"
    /\ \E c1, c2 \in 1..Len(chans) :
          /\ chans[c1].owner \in last.removed
          /\ chans[c2].owner \in last.removed
          /\ chans[c1].owner # chans[c2].owner
          /\ chans[c1].state = "cancelled"
          /\ chans[c1].closeCalls = 1
          /\ chans[c2].state = "closed"
          /\ chans[c2].closeCalls = 1
====
